---- MODULE Spec2Model ----
(***************************************************************************)
(* Model of the TestDashboard component (src/src/components/               *)
(* TestDashboard.tsx): the test registry `tests`, the activity log `logs`, *)
(* the timers set by handleRun and handleBulkRun, and one action per       *)
(* handler or timer callback.                                              *)
(*                                                                         *)
(* Conventions.                                                            *)
(*  - A JavaScript string is a sequence of one-character strings.          *)
(*  - An optional value (lastRun?, FormData.get() that may be null) is a   *)
(*    sequence of length 0 (absent) or 1 (present).                        *)
(*  - runDuration is a real number in the code                             *)
(*    (Math.random() * 400 - 200 is added to an integer).  It is carried   *)
(*    in half-milliseconds, so that Math.round has something to round.     *)
(*  - A handler reads `tests` from the render that created it (a closure); *)
(*    setTests/setLogs updaters read the state current when they run.      *)
(*    A handler called from a click belongs to the latest render; a        *)
(*    handleRun called from a bulk-run timer belongs to the render in      *)
(*    which handleBulkRun ran.                                             *)
(***************************************************************************)
EXTENDS Integers, Sequences, FiniteSets, TLC

VARIABLES
    tests,      \* useState<TestCase[]>: the registry, in display order
    logs,       \* useState<LogEntry[]>: the activity log, newest first
    filterStatus,  \* useState<FilterStatus>: the status shown, or "all"
    searchTerm,    \* useState(""): the text of the search box
    ownerFilter,   \* useState<"all" | string>: the owner shown, or "all"
    pending,    \* completion timers set by handleRun (line 150), in scheduling order
    staggered,  \* start timers set by handleBulkRun (line 195), one batch per bulk run
    uuids,      \* number of generateUuid() calls so far
    now,        \* the clock read by new Date(): one tick per processed event
    used,       \* how many requests the user has issued (bounds the model)
    event,      \* history: the event processed last
    prev,       \* history: tests, logs, pending and staggered before that event
    runs        \* history: the completed runs, oldest first

vars == <<tests, logs, filterStatus, searchTerm, ownerFilter, pending,
          staggered, uuids, now, used, event, prev, runs>>

----------------------------------------------------------------------------
(* Bounds of the model *)

MaxRequests == 2      \* requests of the user (clicks and form submissions)
MaxLogRequests == 13  \* requests of the user in the sessions that fill the log
MaxStatTests == 40    \* tests of the largest inventory the stats are taken of
MaxStatRequests == 1  \* requests of the user on such an inventory
MaxFilterRequests == 1  \* requests on the registry in the sessions that filter
MaxBulkRequests == 2  \* requests of the user in the sessions of four idle tests

----------------------------------------------------------------------------
(* Program constants and pure helpers *)

MAX_LOG_ITEMS == 12

Min(a, b) == IF a < b THEN a ELSE b

Max(a, b) == IF a > b THEN a ELSE b

\* Math.round(n / d) for n >= 0, d > 0: the nearest integer, halves up.
MathRound(n, d) == (2 * n + d) \div (2 * d)

\* Numbers of the code are IEEE-754 doubles.  Where two roundings follow
\* one another (a quotient that is then multiplied), the double is modelled:
\* a finite non-negative double is [bits, e], the significand in binary,
\* most significant bit first, at most Significand bits, and the exponent
\* of its last bit; ZeroDouble is 0.  Integers of the model have 32 bits, so
\* a significand is handled in limbs of Limb bits.
Significand == 53

Limb == 20

ZeroDouble == [bits |-> <<>>, e |-> 0]

RECURSIVE Pow2(_)
Pow2(n) == IF n = 0 THEN 1 ELSE 2 * Pow2(n - 1)

\* 2^k modulo d
RECURSIVE Pow2Mod(_, _)
Pow2Mod(k, d) ==
    IF k = 0 THEN 1 % d
    ELSE LET h == Pow2Mod(k \div 2, d)
         IN  (h * h * (IF k % 2 = 1 THEN 2 ELSE 1)) % d

\* The bits of n, without leading zeros.
RECURSIVE Binary(_)
Binary(n) == IF n = 0 THEN <<>> ELSE Append(Binary(n \div 2), n % 2)

\* The last `width` bits of n.
Fixed(n, width) == [i \in 1..width |-> (n \div Pow2(width - i)) % 2]

RECURSIVE Value(_)
Value(bits) ==
    IF bits = <<>> THEN 0
    ELSE 2 * Value(SubSeq(bits, 1, Len(bits) - 1)) + bits[Len(bits)]

Strip(bits) ==
    IF \A i \in 1..Len(bits) : bits[i] = 0 THEN <<>>
    ELSE LET first == CHOOSE i \in 1..Len(bits) :
                          bits[i] = 1 /\ \A j \in 1..(i - 1) : bits[j] = 0
         IN  SubSeq(bits, first, Len(bits))

Increment(bits) ==
    IF \A i \in 1..Len(bits) : bits[i] = 1
    THEN <<1>> \o [i \in 1..Len(bits) |-> 0]
    ELSE LET zero == CHOOSE i \in 1..Len(bits) :
                         bits[i] = 0 /\ \A j \in (i + 1)..Len(bits) : bits[j] = 1
         IN  [i \in 1..Len(bits) |->
                 IF i < zero THEN bits[i] ELSE IF i = zero THEN 1 ELSE 0]

\* Round to nearest, ties to even, of bits * 2^e (plus, when `sticky`, a
\* positive amount below 2^e) to a double; bits has no leading zero.
RoundToDouble(bits, e, sticky) ==
    IF Len(bits) <= Significand THEN [bits |-> bits, e |-> e]
    ELSE LET keep == SubSeq(bits, 1, Significand)
             rest == SubSeq(bits, Significand + 1, Len(bits))
             more == sticky \/ \E i \in 2..Len(rest) : rest[i] = 1
             up == rest[1] = 1 /\ (more \/ keep[Significand] = 1)
             rounded == IF up THEN Increment(keep) ELSE keep
         IN  IF Len(rounded) > Significand
             THEN [bits |-> SubSeq(rounded, 1, Significand),
                   e |-> e + Len(rest) + 1]
             ELSE [bits |-> rounded, e |-> e + Len(rest)]

\* n / d in double arithmetic, for integers n >= 0 and d > 0: the bits of
\* the quotient by long division (the remainder after k bits of the
\* fraction is (n * 2^k) % d), one bit beyond the significand, then rounded.
Divide(n, d) ==
    IF n = 0 THEN ZeroDouble
    ELSE LET whole == Binary(n \div d)
             remainder(k) == ((n % d) * Pow2Mod(k, d)) % d
             bit(k) == IF 2 * remainder(k - 1) >= d THEN 1 ELSE 0
             lead == IF whole # <<>> THEN 0
                     ELSE (CHOOSE k \in 1..d :
                             bit(k) = 1 /\ \A j \in 1..(k - 1) : bit(j) = 0) - 1
             last == lead + Significand + 1 - Len(whole)
         IN  RoundToDouble(whole \o [k \in 1..(last - lead) |-> bit(lead + k)],
                           -last, remainder(last) # 0)

\* x * k in double arithmetic, for an integer 0 < k <= 100: the exact
\* product limb by limb, then rounded.
Times(x, k) ==
    LET padded == [i \in 1..(3 * Limb - Len(x.bits)) |-> 0] \o x.bits
        high == SubSeq(padded, 1, Limb)
        mid == SubSeq(padded, Limb + 1, 2 * Limb)
        low == SubSeq(padded, 2 * Limb + 1, 3 * Limb)
        p1 == Value(low) * k
        p2 == Value(mid) * k + p1 \div Pow2(Limb)
        p3 == Value(high) * k + p2 \div Pow2(Limb)
    IN  RoundToDouble(Strip(Binary(p3) \o Fixed(p2 % Pow2(Limb), Limb)
                                       \o Fixed(p1 % Pow2(Limb), Limb)),
                      x.e, FALSE)

\* Math.round of a non-negative double: the nearest integer, halves up.
MathRoundDouble(x) ==
    IF x.e >= 0 THEN Value(x.bits) * Pow2(x.e)
    ELSE LET whole == Len(x.bits) + x.e   \* number of bits before the point
         IN  IF whole < 0 THEN 0
             ELSE Value(SubSeq(x.bits, 1, whole)) + x.bits[whole + 1]

\* String.prototype.trim
IsSpace(c) == c \in {" ", "\t", "\n"}

RECURSIVE trimStart(_)
trimStart(s) ==
    IF s # <<>> /\ IsSpace(Head(s)) THEN trimStart(Tail(s)) ELSE s

RECURSIVE trimEnd(_)
trimEnd(s) ==
    IF s # <<>> /\ IsSpace(s[Len(s)]) THEN trimEnd(SubSeq(s, 1, Len(s) - 1))
    ELSE s

\* trim as it would be if it removed nothing.
trimMutantKeepsSpaces(s) == s

trim(s) == trimEnd(trimStart(s))

\* String.prototype.split(","): the pieces between the commas.
RECURSIVE split(_)
split(s) ==
    IF \A i \in 1..Len(s) : s[i] # ","
    THEN <<s>>
    ELSE LET i == CHOOSE k \in 1..Len(s) :
                    s[k] = "," /\ \A m \in 1..(k - 1) : s[m] # ","
         IN  <<SubSeq(s, 1, i - 1)>> \o split(SubSeq(s, i + 1, Len(s)))

\* tests.find((test) => test.id === id): 0 or 1 records (the first match).
Find(registry, id) ==
    LET hits == SelectSeq(registry, LAMBDA t: t.id = id)
    IN  IF hits = <<>> THEN <<>> ELSE <<Head(hits)>>

\* generateUuid(): the n-th call returns a value no earlier call returned.
generateUuid(n) == <<"uuid", n>>

\* formatDuration(ms) for an integer ms: "<ms>ms" below one second, else
\* seconds with two decimals (toFixed(2), carried as hundredths of a second).
formatDuration(ms) ==
    IF ms < 1000 THEN <<ms, "ms">> ELSE <<MathRound(ms, 10), "s/100">>

\* The state after recordLog(level, message) on log `current`.
recordLogMutantNoTruncate(current, level, message, uuid, time) ==
    <<[id |-> uuid, level |-> level, message |-> message, timestamp |-> time]>>
        \o current

\* recordLog as it would be if it added the entry at the back.
recordLogMutantAtBack(current, level, message, uuid, time) ==
    LET entry == [id |-> uuid, level |-> level, message |-> message,
                  timestamp |-> time]
        next == current \o <<entry>>
    IN  SubSeq(next, 1, Min(Len(next), MAX_LOG_ITEMS))

recordLog(current, level, message, uuid, time) ==
    LET entry == [id |-> uuid, level |-> level, message |-> message,
                  timestamp |-> time]
        next == <<entry>> \o current
    IN  SubSeq(next, 1, Min(Len(next), MAX_LOG_ITEMS))

\* { ...test, ...update }: the fields of `update` replace those of `test`.
Spread(test, update) ==
    [f \in DOMAIN test \cup DOMAIN update |->
        IF f \in DOMAIN update THEN update[f] ELSE test[f]]

\* updateTest as it would be if it did not compare ids.
updateTestMutantEveryTest(previous, id, update) ==
    [i \in 1..Len(previous) |-> Spread(previous[i], update)]

\* updateTest(id, update) on the registry `previous`.
updateTest(previous, id, update) ==
    [i \in 1..Len(previous) |->
        IF previous[i].id = id THEN Spread(previous[i], update)
        ELSE previous[i]]

\* runDuration (line 145), in half-milliseconds; jitter2 is
\* Math.random() * 400 - 200 in half-milliseconds, in [-400, 400).
RunDurationMutantNoClamp(target, jitter2) ==
    2 * target.averageDurationMs + jitter2

RunDuration(target, jitter2) ==
    Max(2 * 300, Min(2 * 3000, 2 * target.averageDurationMs + jitter2))

\* successBias (line 151), in percent.
SuccessBias(target) ==
    IF target.status = "failed" \/ target.status = "idle" THEN 55 ELSE 72

\* The completion update as it would be with an unweighted mean of the old
\* average and the new duration.
CompletedMutantUnweighted(target, runDuration2, didPass, time) ==
    [status |-> IF didPass THEN "passed" ELSE "failed",
     lastRun |-> <<time>>,
     runCount |-> target.runCount + 1,
     averageDurationMs |->
        MathRound(2 * target.averageDurationMs + runDuration2, 2 * 2)]

\* The completion update as it would be if it left the status alone.
CompletedMutantKeepsStatus(target, runDuration2, didPass, time) ==
    [lastRun |-> <<time>>,
     runCount |-> target.runCount + 1,
     averageDurationMs |->
        MathRound(2 * target.averageDurationMs * target.runCount + runDuration2,
                  2 * (target.runCount + 1))]

\* The update of the completion callback (lines 155-163).
Completed(target, runDuration2, didPass, time) ==
    [status |-> IF didPass THEN "passed" ELSE "failed",
     lastRun |-> <<time>>,
     runCount |-> target.runCount + 1,
     averageDurationMs |->
        MathRound(2 * target.averageDurationMs * target.runCount + runDuration2,
                  2 * (target.runCount + 1))]

\* String.prototype.toLowerCase, on the letters of the model's texts.
Uppers == <<"A", "B", "C", "D", "E", "F", "G", "H", "I", "J", "K", "L", "M",
            "N", "O", "P", "Q", "R", "S", "T", "U", "V", "W", "X", "Y", "Z">>

Lowers == <<"a", "b", "c", "d", "e", "f", "g", "h", "i", "j", "k", "l", "m",
            "n", "o", "p", "q", "r", "s", "t", "u", "v", "w", "x", "y", "z">>

toLowerCase(s) ==
    [i \in 1..Len(s) |->
        IF \E k \in 1..Len(Uppers) : Uppers[k] = s[i]
        THEN Lowers[CHOOSE k \in 1..Len(Uppers) : Uppers[k] = s[i]]
        ELSE s[i]]

\* String.prototype.includes
includes(s, needle) ==
    \E at \in 0..(Len(s) - Len(needle)) :
        SubSeq(s, at + 1, at + Len(needle)) = needle

\* The value "all" of the owner filter.
All == <<"a", "l", "l">>

\* filteredTests as it would be with owners compared as they are written.
filteredTestsMutantExactOwner(registry, status, owner, search) ==
    SelectSeq(registry, LAMBDA test :
        /\ ~(status # "all" /\ test.status # status)
        /\ ~(owner # All /\ test.owner # owner)
        /\ \/ trim(search) = <<>>
           \/ LET needle == toLowerCase(search)
              IN  \/ includes(toLowerCase(test.name), needle)
                  \/ includes(toLowerCase(test.description), needle)
                  \/ \E i \in 1..Len(test.tags) :
                        includes(toLowerCase(test.tags[i]), needle))

\* filteredTests: the tests shown under the filters.
filteredTests(registry, status, owner, search) ==
    SelectSeq(registry, LAMBDA test :
        /\ ~(status # "all" /\ test.status # status)
        /\ ~(owner # All /\ toLowerCase(test.owner) # toLowerCase(owner))
        /\ \/ trim(search) = <<>>
           \/ LET needle == toLowerCase(search)
              IN  \/ includes(toLowerCase(test.name), needle)
                  \/ includes(toLowerCase(test.description), needle)
                  \/ \E i \in 1..Len(test.tags) :
                        includes(toLowerCase(test.tags[i]), needle))

\* stats: the summary derived from the registry at every render.
Count(registry, status) ==
    Cardinality({i \in 1..Len(registry) : registry[i].status = status})

RECURSIVE SumAverages(_)
SumAverages(registry) ==
    IF registry = <<>> THEN 0
    ELSE Head(registry).averageDurationMs + SumAverages(Tail(registry))

passRate(passed, total) ==
    IF total = 0 THEN 0
    ELSE MathRoundDouble(Times(Divide(passed, total), 100))

stats(registry) ==
    LET total == Len(registry)
        passed == Count(registry, "passed")
    IN  [total |-> total,
         passed |-> passed,
         failed |-> Count(registry, "failed"),
         running |-> Count(registry, "running"),
         idle |-> Count(registry, "idle"),
         passRate |-> passRate(passed, total),
         averageDuration |->
             IF total = 0 THEN 0 ELSE MathRound(SumAverages(registry), total)]

----------------------------------------------------------------------------
(* Inputs *)

Str(c) == <<c>>

\* initialTests, imported from @/data/initial-tests (line 4): candidate seed
\* inventories of the shape of TestCase, with ids that differ across them.
\* The first is the registry of the single-run scenario (one idle test,
\* 500 ms, 0 runs).
SeedTest(n, name, status, avg, count, last, owner) ==
    [id |-> <<"seed", n>>, name |-> name, description |-> Str("d"),
     category |-> "unit", tags |-> <<Str("x")>>, status |-> status,
     averageDurationMs |-> avg, runCount |-> count, lastRun |-> last,
     owner |-> owner]

initialTests ==
    { << SeedTest(1, Str("A"), "idle", 500, 0, <<>>, Str("q")) >>,
      << SeedTest(2, Str("B"), "failed", 400, 2, <<0>>, Str("q")),
         SeedTest(3, Str("C"), "passed", 2900, 5, <<0>>, Str("r")) >> }

\* An inventory of `total` tests of which the first `passed` have passed and
\* the others have failed or are idle.
Inventory(total, passed) ==
    [i \in 1..total |->
        IF i <= passed
        THEN SeedTest(i, Str("T"), "passed", 500, 1, <<0>>, Str("q"))
        ELSE IF i % 2 = 0
        THEN SeedTest(i, Str("T"), "failed", 700, 1, <<0>>, Str("q"))
        ELSE SeedTest(i, Str("T"), "idle", 500, 0, <<>>, Str("q"))]

\* An inventory whose owners differ in case only, with a text in a name, a
\* description and a tag.
filterTests ==
    << [SeedTest(4, <<"L", "o", "g", " ", "I", "n">>, "failed", 400, 2, <<0>>,
                 Str("Q")) EXCEPT !.tags = << <<"U", "i">> >>],
       [SeedTest(5, <<"o", "u", "t">>, "passed", 600, 1, <<0>>,
                 Str("q")) EXCEPT !.description = <<"L", "o", "g">>],
       SeedTest(6, <<"p", "a", "y">>, "failed", 500, 1, <<0>>, Str("r")) >>

\* An inventory of four idle tests: the start timer of the fourth is set
\* 450 ms after the bulk run, the time of a short run.
bulkTests ==
    [i \in 1..4 |-> SeedTest(6 + i, Str("T"), "idle", 500, 0, <<>>, Str("q"))]

\* The jitter of the shortest runs (300 ms for a test of 500 ms).
ShortJitters == {-400}

\* The status buttons of the filter (line 310).
FilterStatuses == {"all", "passed", "failed", "running", "idle"}

\* Texts typed into the search box.
SearchTerms ==
    { <<>>, <<" ", " ">>, <<"l", "O", "G">>, <<"g", " ">>, <<"u", "I">>,
      <<"z">> }

\* owners: the options of the owner filter besides "all".
owners == {tests[i].owner : i \in 1..Len(tests)}

\* Values of Math.random() * 400 - 200, in half-milliseconds.
Jitters == {-400, 1, 398}

\* The forms submitted to handleCreateTest.
Form(name, description, owner, category, tags) ==
    [name |-> name, description |-> description, owner |-> owner,
     category |-> category, tags |-> tags]

Forms ==
    { Form(<< <<" ", "N", " ">> >>, << Str("d") >>, << <<"o", " ">> >>, <<>>,
           << <<" ", "x", ",", ",", " ", "y">> >>),
      Form(<< <<" ", " ">> >>, << Str("d") >>, << Str("o") >>, <<>>, <<>>),
      Form(<< Str("N") >>, <<>>, << Str("o") >>, << "e2e" >>, <<>>),
      Form(<< Str("N") >>, << Str("d") >>, << Str(" ") >>, <<>>, <<>>) }

\* Ids a request may name: the ids of the registry (the buttons of the
\* rendered cards), and one id that no test has.
MissingId == <<"seed", 0>>

TestIds == {tests[i].id : i \in 1..Len(tests)}

Snapshot == [tests |-> tests, logs |-> logs, pending |-> pending,
             staggered |-> staggered]

----------------------------------------------------------------------------
(* State machine *)

Init ==
    /\ tests \in initialTests
    /\ logs = <<>>
    /\ filterStatus = "all"
    /\ searchTerm = <<>>
    /\ ownerFilter = All
    /\ pending = <<>>
    /\ staggered = <<>>
    /\ uuids = 0
    /\ now = 1
    /\ used = 0
    /\ event = [op |-> "init", id |-> MissingId, info |-> <<>>]
    /\ prev = [tests |-> tests, logs |-> <<>>, pending |-> <<>>,
               staggered |-> <<>>]
    /\ runs = <<>>

\* --- window.setTimeout ---------------------------------------------------
\* A timer fires no earlier than its delay after it was set, and timers fire
\* in the order of their expiry (ties: the one set first).  The times of the
\* user's requests are free, so the order of two timers is forced only when
\* the one set first is known to expire first: timer X, pending when Y is
\* set, precedes Y when X's delay, less the time known to have passed since
\* X was set, is at most Y's delay.  For a completion timer nothing is known
\* to have passed; for a start timer of a bulk run, the delay of that bulk
\* run's timer that fired last has passed.  All times in half-milliseconds.

\* The key of a completion timer, and of the start timer of index m of a
\* bulk run; `at` is the tick at which the timer was set.
CompletionKey(p) == <<"c", p.at>>

StartKey(batch, m) == <<"s", batch.at, m>>

\* The delay of the start timer of index m (line 195: index * 150).
StartDelay(m) == 2 * (m * 150)

\* The indices of the start timers of a bulk run that are still set.
StartsLeft(batch) == {batch.next + k - 1 : k \in 1..Len(batch.ids)}

\* The timers set and not yet fired.
TimerKeys(timers, batches) ==
    {CompletionKey(timers[i]) : i \in 1..Len(timers)}
        \cup UNION {{StartKey(batches[b], m) : m \in StartsLeft(batches[b])} :
                        b \in 1..Len(batches)}

\* For every timer now set: the least delay of a new timer that it precedes.
Earlier(timers, batches) ==
    {[key |-> CompletionKey(timers[i]), slack |-> timers[i].runDuration] :
        i \in 1..Len(timers)}
        \cup UNION {{[key |-> StartKey(batches[b], m),
                      slack |-> StartDelay(m)
                                 - StartDelay(Max(batches[b].next - 1, 0))] :
                        m \in StartsLeft(batches[b])} : b \in 1..Len(batches)}

\* A timer set with `delay` when `earlier` was recorded may fire now.
MayFire(earlier, delay) ==
    \A e \in earlier :
        e.slack <= delay => e.key \notin TimerKeys(pending, staggered)

\* handleRun(id) of the render whose registry was `closure`, with the
\* jitter drawn at line 147; `batches` are the start timers left once this
\* event is processed.  Gives the new tests, logs, pending and uuids.
handleRun(closure, id, jitter2, batches) ==
    LET found == Find(closure, id)
    IN  IF found = <<>> \/ found[1].status = "running"
        THEN /\ UNCHANGED <<tests, logs, pending, uuids>>
        ELSE LET target == found[1]
                 runDuration == RunDuration(target, jitter2)
             IN  /\ logs' = recordLog(logs, "info", <<"Queued", target.name>>,
                                      generateUuid(uuids + 1), now)
                 /\ uuids' = uuids + 1
                 /\ tests' = updateTest(tests, id, [status |-> "running"])
                 /\ pending' = Append(pending,
                        [id |-> id, target |-> target,
                         runDuration |-> runDuration, at |-> now,
                         earlier |-> {e \in Earlier(pending, batches) :
                                        e.slack <= runDuration}])

\* handleRun(id) of the latest render: a click on a test's Run button
\* (line 410; the button is disabled while the test is running) or any
\* other direct start request.
Run(id, jitter2) ==
    /\ handleRun(tests, id, jitter2, staggered)
    /\ UNCHANGED staggered
    /\ now' = now + 1
    /\ event' = [op |-> "run", id |-> id,
                 info |-> [src |-> "click", stale |-> Find(tests, id)]]
    /\ prev' = Snapshot

\* The callback of the timer set at line 150 fires: pending[i], with the
\* outcome of Math.random() < successBias.
Complete(i, didPass) ==
    LET p == pending[i]
        target == p.target
        done == Completed(target, p.runDuration, didPass, now)
    IN  /\ MayFire(p.earlier, p.runDuration)
        /\ tests' = updateTest(tests, p.id, done)
        /\ logs' = recordLog(logs, IF didPass THEN "success" ELSE "error",
                        IF didPass
                        THEN <<"passed", target.name,
                               formatDuration(MathRound(p.runDuration, 2))>>
                        ELSE <<"failed", target.name>>,
                        generateUuid(uuids + 1), now)
        /\ uuids' = uuids + 1
        /\ pending' = SubSeq(pending, 1, i - 1)
                        \o SubSeq(pending, i + 1, Len(pending))
        /\ UNCHANGED staggered
        /\ now' = now + 1
        /\ event' = [op |-> "complete", id |-> p.id,
                     info |-> [didPass |-> didPass, target |-> target,
                               runDuration |-> p.runDuration,
                               bias |-> SuccessBias(target)]]
        /\ prev' = Snapshot
        /\ runs' = Append(runs, [id |-> p.id, runDuration |-> p.runDuration])

\* handleReset as it would be if it cancelled the runs in flight.
handleResetMutantCancels(id) ==
    LET found == Find(tests, id)
    IN  /\ IF found = <<>>
           THEN UNCHANGED <<tests, logs, uuids, pending>>
           ELSE /\ tests' = updateTest(tests, id, [status |-> "idle"])
                /\ logs' = recordLog(logs, "info", <<"Reset", found[1].name>>,
                                     generateUuid(uuids + 1), now)
                /\ uuids' = uuids + 1
                /\ pending' = SelectSeq(pending, LAMBDA p: p.id # id)
        /\ UNCHANGED staggered
        /\ now' = now + 1
        /\ event' = [op |-> "reset", id |-> id, info |-> [found |-> found # <<>>]]
        /\ prev' = Snapshot

\* handleReset as it would be without the guard of line 176.
handleResetMutantNoGuard(id) ==
    LET found == Find(tests, id)
    IN  /\ tests' = updateTest(tests, id, [status |-> "idle"])
        /\ logs' = recordLog(logs, "info",
                        <<"Reset", IF found = <<>> THEN <<>> ELSE found[1].name>>,
                        generateUuid(uuids + 1), now)
        /\ uuids' = uuids + 1
        /\ UNCHANGED <<pending, staggered>>
        /\ now' = now + 1
        /\ event' = [op |-> "reset", id |-> id, info |-> [found |-> found # <<>>]]
        /\ prev' = Snapshot

\* handleReset(id), from a click on a test's Reset button.
handleReset(id) ==
    LET found == Find(tests, id)
    IN  /\ IF found = <<>>
           THEN UNCHANGED <<tests, logs, uuids>>
           ELSE /\ tests' = updateTest(tests, id, [status |-> "idle"])
                /\ logs' = recordLog(logs, "info", <<"Reset", found[1].name>>,
                                     generateUuid(uuids + 1), now)
                /\ uuids' = uuids + 1
        /\ UNCHANGED <<pending, staggered>>
        /\ now' = now + 1
        /\ event' = [op |-> "reset", id |-> id, info |-> [found |-> found # <<>>]]
        /\ prev' = Snapshot

\* The selection as it would be if passed tests were not left out.
RunnableMutantKeepsPassed(registry) ==
    SelectSeq(registry, LAMBDA t: t.status # "running")

\* The tests handleBulkRun selects (line 185).
Runnable(registry) ==
    SelectSeq(registry, LAMBDA t: t.status # "running" /\ t.status # "passed")

\* handleBulkRun as it would be if the summary counted every test.
handleBulkRunMutantCountsAll ==
    LET runnable == Runnable(tests)
    IN  /\ IF runnable = <<>>
           THEN /\ logs' = recordLog(logs, "info", <<"No tests queued">>,
                                     generateUuid(uuids + 1), now)
                /\ UNCHANGED staggered
           ELSE /\ staggered' = Append(staggered,
                        [closure |-> tests,
                         ids |-> [i \in 1..Len(runnable) |-> runnable[i].id],
                         next |-> 0, at |-> now,
                         earlier |-> Earlier(pending, staggered)])
                /\ logs' = recordLog(logs, "info",
                        <<"Launched", Len(tests),
                          IF Len(tests) > 1 THEN "tests" ELSE "test">>,
                        generateUuid(uuids + 1), now)
        /\ uuids' = uuids + 1
        /\ UNCHANGED <<tests, pending>>
        /\ now' = now + 1
        /\ event' = [op |-> "bulk", id |-> MissingId,
                     info |-> [launched |-> Len(runnable)]]
        /\ prev' = Snapshot

\* handleBulkRun(), from a click on "Run Failing Tests".  The timers it sets
\* call the handleRun of this render, so they carry this render's `tests`;
\* their delays grow with the index, so they fire in order.
handleBulkRun ==
    LET runnable == Runnable(tests)
    IN  /\ IF runnable = <<>>
           THEN /\ logs' = recordLog(logs, "info", <<"No tests queued">>,
                                     generateUuid(uuids + 1), now)
                /\ UNCHANGED staggered
           ELSE /\ staggered' = Append(staggered,
                        [closure |-> tests,
                         ids |-> [i \in 1..Len(runnable) |-> runnable[i].id],
                         next |-> 0, at |-> now,
                         earlier |-> Earlier(pending, staggered)])
                /\ logs' = recordLog(logs, "info",
                        <<"Launched", Len(runnable),
                          IF Len(runnable) > 1 THEN "tests" ELSE "test">>,
                        generateUuid(uuids + 1), now)
        /\ uuids' = uuids + 1
        /\ UNCHANGED <<tests, pending>>
        /\ now' = now + 1
        /\ event' = [op |-> "bulk", id |-> MissingId,
                     info |-> [launched |-> Len(runnable)]]
        /\ prev' = Snapshot

\* The next timer of bulk run b fires (line 195): handleRun(test.id) of the
\* render in which that bulk run was requested.
StaggeredStart(b, jitter2) ==
    LET batch == staggered[b]
        id == Head(batch.ids)
        rest == Tail(batch.ids)
        left == IF rest = <<>>
                THEN SubSeq(staggered, 1, b - 1)
                        \o SubSeq(staggered, b + 1, Len(staggered))
                ELSE [staggered EXCEPT ![b].ids = rest,
                                       ![b].next = batch.next + 1]
    IN  /\ MayFire(batch.earlier, StartDelay(batch.next))
        /\ handleRun(batch.closure, id, jitter2, left)
        /\ staggered' = left
        /\ now' = now + 1
        /\ event' = [op |-> "run", id |-> id,
                     info |-> [src |-> "timer",
                               stale |-> Find(batch.closure, id)]]
        /\ prev' = Snapshot

\* The registry with the new test added at the back.
AddTestMutantAtBack(newTest, current) == Append(current, newTest)

\* setTests((current) => [newTest, ...current]) (line 237).
AddTest(newTest, current) == <<newTest>> \o current

\* handleCreateTest(formData): every field of the form is absent (<<>>) or
\* present (<<string>>).
handleCreateTest(formData) ==
    LET Text(field) == IF field = <<>> THEN <<>> ELSE trim(field[1])
        name == Text(formData.name)
        description == Text(formData.description)
        owner == Text(formData.owner)
        category == IF formData.category = <<>> THEN "unit"
                    ELSE formData.category[1]
        tags == IF formData.tags = <<>> THEN <<>>
                ELSE LET pieces == split(formData.tags[1])
                     IN  SelectSeq([i \in 1..Len(pieces) |-> trim(pieces[i])],
                                   LAMBDA tag: tag # <<>>)
        valid == ~(name = <<>> \/ description = <<>> \/ owner = <<>>)
    IN  /\ IF ~valid
           THEN /\ logs' = recordLog(logs, "error", <<"Cannot create test">>,
                                     generateUuid(uuids + 1), now)
                /\ uuids' = uuids + 1
                /\ UNCHANGED tests
           ELSE LET newTest ==
                      [id |-> generateUuid(uuids + 1), name |-> name,
                       description |-> description, category |-> category,
                       tags |-> tags, status |-> "idle",
                       averageDurationMs |-> 500, runCount |-> 0,
                       lastRun |-> <<>>, owner |-> owner]
                IN  /\ tests' = AddTest(newTest, tests)
                    /\ logs' = recordLog(logs, "success",
                                    <<"Created", name, Len(tags)>>,
                                    generateUuid(uuids + 2), now)
                    /\ uuids' = uuids + 2
        /\ UNCHANGED <<pending, staggered>>
        /\ now' = now + 1
        /\ event' = [op |-> "create", id |-> MissingId,
                     info |-> [form |-> formData, valid |-> valid]]
        /\ prev' = Snapshot

\* No handler of the registry and no timer callback sets a filter.
Filters == <<filterStatus, searchTerm, ownerFilter>>

\* One more request of the user on the registry, of at most `max`.
User(max) == used < max /\ used' = used + 1 /\ UNCHANGED Filters

\* A timer callback: no request of the user.
Timer == used' = used /\ UNCHANGED Filters

\* An event that completes no run.
NoRun == runs' = runs

Next ==
    \/ User(MaxRequests) /\ NoRun
            /\ \E id \in TestIds, j \in Jitters : Run(id, j)
    \/ User(MaxRequests) /\ NoRun /\ \E id \in TestIds : handleReset(id)
    \/ User(MaxRequests) /\ NoRun /\ handleBulkRun
    \/ User(MaxRequests) /\ NoRun
            /\ \E formData \in Forms : handleCreateTest(formData)
    \/ Timer /\ \E i \in 1..Len(pending), didPass \in BOOLEAN :
                    Complete(i, didPass)
    \/ Timer /\ NoRun /\ \E b \in 1..Len(staggered), j \in Jitters :
                    StaggeredStart(b, j)

Spec == Init /\ [][Next]_vars

\* Sessions long enough to fill the log: the user resets the first test of
\* the registry or submits a form with a blank name, again and again.
\* A timer that is due fires: the browser runs the callbacks of
\* window.setTimeout.
Fires ==
    \/ Timer /\ \E i \in 1..Len(pending), didPass \in BOOLEAN :
                    Complete(i, didPass)
    \/ Timer /\ NoRun
            /\ \E b \in 1..Len(staggered), j \in Jitters : StaggeredStart(b, j)

FairSpec == Spec /\ WF_vars(Fires)

BlankForm == Form(<< <<" ", " ">> >>, << Str("d") >>, << Str("o") >>, <<>>, <<>>)

NextLog ==
    \/ User(MaxLogRequests) /\ NoRun /\ handleReset(tests[1].id)
    \/ User(MaxLogRequests) /\ NoRun /\ handleCreateTest(BlankForm)

SpecLog == Init /\ [][NextLog]_vars

\* Sessions in which a request may name an id that no test has.
RequestIds == TestIds \cup {MissingId}

NextMissing ==
    \/ User(MaxRequests) /\ NoRun
            /\ \E id \in RequestIds, j \in Jitters : Run(id, j)
    \/ User(MaxRequests) /\ NoRun /\ \E id \in RequestIds : handleReset(id)
    \/ Timer /\ \E i \in 1..Len(pending), didPass \in BOOLEAN :
                    Complete(i, didPass)

SpecMissing == Init /\ [][NextMissing]_vars

\* The setters of the filters, from the controls of lines 292-343.
Session == <<tests, logs, pending, staggered, uuids, now, used, event, prev, runs>>

setFilterStatus(statusOption) ==
    /\ filterStatus' = statusOption
    /\ UNCHANGED <<searchTerm, ownerFilter, Session>>

setSearchTerm(value) ==
    /\ searchTerm' = value
    /\ UNCHANGED <<filterStatus, ownerFilter, Session>>

setOwnerFilter(value) ==
    /\ ownerFilter' = value
    /\ UNCHANGED <<filterStatus, searchTerm, Session>>

\* Sessions in which the user filters an inventory and runs its tests.
InitFilter ==
    /\ tests = filterTests
    /\ logs = <<>>
    /\ filterStatus = "all"
    /\ searchTerm = <<>>
    /\ ownerFilter = All
    /\ pending = <<>>
    /\ staggered = <<>>
    /\ uuids = 0
    /\ now = 1
    /\ used = 0
    /\ event = [op |-> "init", id |-> MissingId, info |-> <<>>]
    /\ prev = [tests |-> tests, logs |-> <<>>, pending |-> <<>>,
               staggered |-> <<>>]
    /\ runs = <<>>

NextFilter ==
    \/ \E statusOption \in FilterStatuses : setFilterStatus(statusOption)
    \/ \E value \in SearchTerms : setSearchTerm(value)
    \/ \E value \in owners \cup {All} : setOwnerFilter(value)
    \/ User(MaxFilterRequests) /\ NoRun
            /\ \E id \in TestIds, j \in Jitters : Run(id, j)
    \/ Timer /\ \E i \in 1..Len(pending), didPass \in BOOLEAN :
                    Complete(i, didPass)

SpecFilter == InitFilter /\ [][NextFilter]_vars

\* Sessions on four idle tests: bulk runs, and clicks on Run of the last.
InitBulk ==
    /\ tests = bulkTests
    /\ logs = <<>>
    /\ filterStatus = "all"
    /\ searchTerm = <<>>
    /\ ownerFilter = All
    /\ pending = <<>>
    /\ staggered = <<>>
    /\ uuids = 0
    /\ now = 1
    /\ used = 0
    /\ event = [op |-> "init", id |-> MissingId, info |-> <<>>]
    /\ prev = [tests |-> tests, logs |-> <<>>, pending |-> <<>>,
               staggered |-> <<>>]
    /\ runs = <<>>

NextBulk ==
    \/ User(MaxBulkRequests) /\ NoRun
            /\ \E j \in ShortJitters : Run(tests[Len(tests)].id, j)
    \/ User(MaxBulkRequests) /\ NoRun /\ handleBulkRun
    \/ Timer /\ \E i \in 1..Len(pending), didPass \in BOOLEAN :
                    Complete(i, didPass)
    \/ Timer /\ NoRun
            /\ \E b \in 1..Len(staggered), j \in ShortJitters : StaggeredStart(b, j)

SpecBulk == InitBulk /\ [][NextBulk]_vars

\* Sessions on inventories of up to MaxStatTests tests, with requests on the
\* first test.
InitStats ==
    /\ \E total \in 0..MaxStatTests, passed \in 0..MaxStatTests :
            /\ passed <= total
            /\ tests = Inventory(total, passed)
    /\ logs = <<>>
    /\ filterStatus = "all"
    /\ searchTerm = <<>>
    /\ ownerFilter = All
    /\ pending = <<>>
    /\ staggered = <<>>
    /\ uuids = 0
    /\ now = 1
    /\ used = 0
    /\ event = [op |-> "init", id |-> MissingId, info |-> <<>>]
    /\ prev = [tests |-> tests, logs |-> <<>>, pending |-> <<>>,
               staggered |-> <<>>]
    /\ runs = <<>>

NextStats ==
    \/ User(MaxStatRequests) /\ NoRun /\ tests # <<>>
            /\ \E j \in Jitters : Run(tests[1].id, j)
    \/ User(MaxStatRequests) /\ NoRun /\ tests # <<>>
            /\ handleReset(tests[1].id)
    \/ Timer /\ \E i \in 1..Len(pending), didPass \in BOOLEAN :
                    Complete(i, didPass)

SpecStats == InitStats /\ [][NextStats]_vars

----------------------------------------------------------------------------
(* Vocabulary of the properties *)

\* The record of test id in a registry that holds it.
Rec(registry, id) == Find(registry, id)[1]

Has(registry, id) == Find(registry, id) # <<>>

\* The completion timers of test id among `timers`.
InFlight(timers, id) == SelectSeq(timers, LAMBDA p: p.id = id)

\* The event processed last appended exactly one entry, of this level, at
\* the front of the log.
Logged(level) ==
    /\ logs # <<>>
    /\ logs[1].level = level
    /\ logs[1].id \notin {prev.logs[i].id : i \in 1..Len(prev.logs)}
    /\ logs = SubSeq(<<logs[1]>> \o prev.logs, 1,
                     Min(Len(prev.logs) + 1, MAX_LOG_ITEMS))

----------------------------------------------------------------------------
(* C1 *)

\* C1: every completion raises the runCount of its test by exactly 1 over
\* the value the registry held just before the completion (so that runCount
\* is the initial runCount plus the number of completions fired).
C1_CompletionAddsOne ==
    event.op = "complete" =>
        Rec(tests, event.id).runCount = Rec(prev.tests, event.id).runCount + 1

----------------------------------------------------------------------------
(* C2 *)

\* C2: a start-run request processed while the test's current status is
\* running, from a click or from a bulk-run timer, changes neither the
\* registry nor the log and schedules no completion.
C2_StartWhileRunningIsNoOp ==
    (event.op = "run" /\ Has(prev.tests, event.id)
        /\ Rec(prev.tests, event.id).status = "running") =>
            /\ tests = prev.tests
            /\ logs = prev.logs
            /\ pending = prev.pending

----------------------------------------------------------------------------
(* C3 *)

\* C3: the log never holds more than 12 entries and is ordered newest
\* first; an entry appended to a log of 12 goes to the front, the 11 most
\* recent earlier entries follow in their order, and the oldest is dropped.
C3_LogBounded ==
    /\ Len(logs) <= 12
    /\ \A i, j \in 1..Len(logs) :
            i < j => logs[i].timestamp > logs[j].timestamp
    /\ (Len(prev.logs) = 12 /\ logs # prev.logs) =>
            /\ Len(logs) = 12
            /\ logs[1].timestamp = now - 1
            /\ \A i \in 1..12 : prev.logs[i] # logs[1]
            /\ SubSeq(logs, 2, 12) = SubSeq(prev.logs, 1, 11)
            /\ \A i \in 1..12 : logs[i] # prev.logs[12]

\* An entry was appended to a log that held 12.
C3_Witness == Len(prev.logs) = 12 /\ logs # prev.logs /\ event.op = "reset"

----------------------------------------------------------------------------
(* C4 *)

----------------------------------------------------------------------------
(* C5 *)

\* A registry of one test with the given status, averageDurationMs 500 and
\* runCount 0.
C5_Single(registry, status) ==
    /\ Len(registry) = 1
    /\ registry[1].status = status
    /\ registry[1].averageDurationMs = 500
    /\ registry[1].runCount = 0

\* C5: from a single idle test (average 500, runCount 0) and an empty log,
\* an accepted start sets the status to running and logs exactly one info
\* entry; when its completion fires the status is passed or failed,
\* runCount is 1, averageDurationMs is the sampled duration rounded to the
\* nearest millisecond, lastRun is set, and the log holds 2 entries, the
\* newest a success entry exactly when the status is passed, else an error
\* entry.
C5_SingleRun ==
    /\ (event.op = "run" /\ C5_Single(prev.tests, "idle") /\ prev.logs = <<>>) =>
            /\ C5_Single(tests, "running")
            /\ tests = [prev.tests EXCEPT ![1].status = "running"]
            /\ Len(logs) = 1
            /\ logs[1].level = "info"
            /\ Len(pending) = Len(prev.pending) + 1
    /\ (/\ event.op = "complete"
        /\ C5_Single(prev.tests, "running")
        /\ Len(prev.logs) = 1
        /\ prev.logs[1].message[1] = "Queued") =>
            LET t == tests[1]
                d2 == event.info.runDuration
            IN  /\ t.status \in {"passed", "failed"}
                /\ t.runCount = 1
                /\ 2 * t.averageDurationMs - d2 \in {0, 1}
                /\ d2 >= 2 * 300 /\ d2 < 2 * 700
                /\ t.lastRun # <<>>
                /\ Len(logs) = 2
                /\ logs[2] = prev.logs[1]
                /\ (logs[1].level = "success") = (t.status = "passed")
                /\ (logs[1].level = "error") = (t.status # "passed")

\* The single run has completed, with a duration that is no whole number of
\* milliseconds.
C5_Witness ==
    /\ event.op = "complete"
    /\ C5_Single(prev.tests, "running")
    /\ Len(prev.logs) = 1
    /\ event.info.runDuration = 2 * 500 + 1
    /\ tests[1].averageDurationMs = 501
    /\ tests[1].status = "failed"

----------------------------------------------------------------------------
(* C6 *)

\* The ids of the tests of a registry that are idle or failed, in order.
Eligible(registry) ==
    LET hits == SelectSeq(registry, LAMBDA t: t.status \in {"idle", "failed"})
    IN  [i \in 1..Len(hits) |-> hits[i].id]

\* The start timers `before`, less the first timer of bulk run b.
C6_Fired(before, b) ==
    IF Len(before[b].ids) = 1
    THEN SubSeq(before, 1, b - 1) \o SubSeq(before, b + 1, Len(before))
    ELSE [before EXCEPT ![b].ids = Tail(@), ![b].next = @ + 1]

\* C6: a bulk run with k >= 1 eligible tests appends, in the same event,
\* exactly one info entry stating k, starts no run yet (no 'Queued' or
\* outcome entry, no status change, no completion timer), and sets k start
\* timers, one per selected test in registry order; every start timer that
\* fires is the first one left of its bulk run, for the test it was set for.
C6_BulkSummary ==
    /\ (event.op = "bulk" /\ Len(Eligible(prev.tests)) >= 1) =>
            LET k == Len(Eligible(prev.tests))
            IN  /\ Logged("info")
                /\ logs[1].message[1] = "Launched"
                /\ logs[1].message[2] = k
                /\ tests = prev.tests
                /\ pending = prev.pending
                /\ Len(staggered) = Len(prev.staggered) + 1
                /\ SubSeq(staggered, 1, Len(prev.staggered)) = prev.staggered
                /\ staggered[Len(staggered)].ids = Eligible(prev.tests)
                /\ Len(staggered[Len(staggered)].ids) = k
    /\ (event.op = "run" /\ event.info.src = "timer") =>
            \E b \in 1..Len(prev.staggered) :
                /\ Head(prev.staggered[b].ids) = event.id
                /\ staggered = C6_Fired(prev.staggered, b)
                /\ Len(pending) <= Len(prev.pending) + 1

\* The second start timer of a bulk run of 2 tests has fired, after the
\* first one.
C6_Witness ==
    /\ event.op = "run"
    /\ event.info.src = "timer"
    /\ Len(prev.staggered) = 1
    /\ prev.staggered[1].next = 1
    /\ Len(Eligible(prev.staggered[1].closure)) = 2
    /\ event.id = Eligible(prev.staggered[1].closure)[2]
    /\ staggered = <<>>
    /\ \E i \in 1..Len(logs) :
            logs[i].message[1] = "Launched" /\ logs[i].message[2] = 2

----------------------------------------------------------------------------
(* C7 *)

\* C7: a bulk run changes no test record and sets no completion timer; it
\* sets start timers for exactly the tests that are idle or failed when it
\* is requested, so every start timer that fires is for a test that was
\* idle or failed then, never one that was running or passed; when no test
\* is idle or failed it appends exactly one info entry and sets no timer.
C7_BulkSelection ==
    /\ event.op = "bulk" =>
            /\ tests = prev.tests
            /\ pending = prev.pending
            /\ IF Eligible(prev.tests) = <<>>
               THEN /\ Logged("info")
                    /\ staggered = prev.staggered
               ELSE /\ staggered[Len(staggered)].ids = Eligible(prev.tests)
                    /\ staggered[Len(staggered)].closure = prev.tests
                    /\ \A i \in 1..Len(prev.tests) :
                        prev.tests[i].status \in {"running", "passed"} =>
                            \A k \in 1..Len(staggered[Len(staggered)].ids) :
                                staggered[Len(staggered)].ids[k]
                                    # prev.tests[i].id
    /\ (event.op = "run" /\ event.info.src = "timer") =>
            \E b \in 1..Len(prev.staggered) :
                /\ Head(prev.staggered[b].ids) = event.id
                /\ staggered = C6_Fired(prev.staggered, b)
                /\ Rec(prev.staggered[b].closure, event.id).status
                        \in {"idle", "failed"}

\* A bulk run was requested when a test was running and none was idle or
\* failed.
C7_Witness ==
    /\ event.op = "bulk"
    /\ Eligible(prev.tests) = <<>>
    /\ \E i \in 1..Len(prev.tests) : prev.tests[i].status = "running"
    /\ logs[1].message = <<"No tests queued">>

----------------------------------------------------------------------------
(* C8 *)

\* A form field that is absent, empty or made of white space only.
Blank(field) ==
    field = <<>> \/ \A i \in 1..Len(field[1]) : field[1][i] \in {" ", "\t", "\n"}

Invalid(formData) ==
    Blank(formData.name) \/ Blank(formData.description) \/ Blank(formData.owner)

\* C8: a create request whose name, description or owner is empty after
\* trimming leaves the registry unchanged and appends exactly one error
\* entry at the front of the log.
C8_InvalidCreate ==
    (event.op = "create" /\ Invalid(event.info.form)) =>
        /\ tests = prev.tests
        /\ Logged("error")
        /\ Len(logs) = Len(prev.logs) + 1
        /\ Tail(logs) = prev.logs

\* A form whose name is white space only was submitted.
C8_Witness ==
    /\ event.op = "create"
    /\ event.info.form.name = << <<" ", " ">> >>
    /\ ~Blank(event.info.form.description)
    /\ ~Blank(event.info.form.owner)
    /\ logs[1].level = "error"

----------------------------------------------------------------------------
(* C9 *)

\* C9: a create request with non-empty name, description and owner puts a
\* new record at the front of the registry, with status idle, runCount 0,
\* averageDurationMs 500, no lastRun and an id no other record has; the
\* records that existed are unchanged, in their order, behind it.
C9_ValidCreate ==
    (event.op = "create" /\ ~Invalid(event.info.form)) =>
        /\ Len(tests) = Len(prev.tests) + 1
        /\ Tail(tests) = prev.tests
        /\ tests[1].status = "idle"
        /\ tests[1].runCount = 0
        /\ tests[1].averageDurationMs = 500
        /\ tests[1].lastRun = <<>>
        /\ \A i \in 1..Len(prev.tests) : prev.tests[i].id # tests[1].id
        /\ \A i, j \in 1..Len(tests) : i # j => tests[i].id # tests[j].id

\* A second test was created, in front of the one created before.
C9_Witness ==
    /\ event.op = "create"
    /\ ~Invalid(event.info.form)
    /\ Len(tests) >= 3
    /\ tests[1].id[1] = "uuid"
    /\ tests[2].id[1] = "uuid"
    /\ tests[1].name = <<"N">>

----------------------------------------------------------------------------
(* C10 *)

\* The durations (in half-milliseconds) of the completed runs of test id.
RECURSIVE DurationsOf(_, _)
DurationsOf(done, id) ==
    IF done = <<>> THEN <<>>
    ELSE (IF Head(done).id = id THEN <<Head(done).runDuration>> ELSE <<>>)
            \o DurationsOf(Tail(done), id)

RECURSIVE Sum(_)
Sum(s) == IF s = <<>> THEN 0 ELSE Head(s) + Sum(Tail(s))

\* The test started with runCount 0: it was created in this session, or it
\* is the seed test that has run 0 times.
ZeroStart(id) == id[1] = "uuid" \/ id = <<"seed", 1>>

Abs(n) == IF n < 0 THEN -n ELSE n

\* C10: for a test that started with runCount 0, after N completed runs
\* (1 <= N <= 5) of whole-millisecond durations, averageDurationMs is within
\* 1 ms of the mean of the N durations rounded to the nearest integer.
C10_AverageIsMean ==
    \A i \in 1..Len(tests) :
        LET ds == DurationsOf(runs, tests[i].id)
            N == Len(ds)
        IN  (/\ ZeroStart(tests[i].id)
             /\ N >= 1 /\ N <= 5
             /\ \A k \in 1..N : ds[k] % 2 = 0) =>
                Abs(tests[i].averageDurationMs
                        - ((2 * Sum(ds) + 2 * N) \div (4 * N))) <= 1

----------------------------------------------------------------------------
(* C11 *)

\* C11: a start-run or reset request naming an id that no test of the
\* registry has changes no test record, appends no log entry and sets no
\* timer.
C11_MissingIdIsNoOp ==
    (event.op \in {"run", "reset"} /\ ~Has(prev.tests, event.id)) =>
        /\ tests = prev.tests
        /\ logs = prev.logs
        /\ pending = prev.pending
        /\ staggered = prev.staggered

\* A reset named a missing id while a run was in flight.
C11_Witness ==
    /\ event.op = "reset"
    /\ event.id = MissingId
    /\ ~Has(prev.tests, event.id)
    /\ pending # <<>>

----------------------------------------------------------------------------
(* C12 *)

\* C12: the pass rate shown is an integer from 0 to 100, it is 0 for an empty
\* registry and otherwise 100 * passed / total rounded to the nearest
\* integer, and the counts of passed, failed, running and idle tests add up
\* to the number of tests.
C12_PassRate ==
    LET s == stats(tests)
    IN  /\ s.total = Len(tests)
        /\ s.passed + s.failed + s.running + s.idle = s.total
        /\ s.passRate \in 0..100
        /\ s.total = 0 => s.passRate = 0
        /\ s.total > 0 => s.passRate = MathRound(100 * s.passed, s.total)

----------------------------------------------------------------------------
(* C13 *)

\* The term appears in the text, letter case aside.
C13_Appears(term, text) ==
    \E at \in 0..(Len(text) - Len(term)) :
        \A k \in 1..Len(term) :
            toLowerCase(<<text[at + k]>>) = toLowerCase(<<term[k]>>)

\* The three predicates of the filter on a test.
C13_Matches(test) ==
    /\ filterStatus = "all" \/ test.status = filterStatus
    /\ \/ ownerFilter = All
       \/ /\ Len(test.owner) = Len(ownerFilter)
          /\ C13_Appears(ownerFilter, test.owner)
    /\ \/ \A k \in 1..Len(searchTerm) : IsSpace(searchTerm[k])
       \/ C13_Appears(searchTerm, test.name)
       \/ C13_Appears(searchTerm, test.description)
       \/ \E i \in 1..Len(test.tags) : C13_Appears(searchTerm, test.tags[i])

\* C13: the tests shown are the tests of the registry that satisfy the
\* status, the owner and the search predicate together, in the order of the
\* registry; with status "failed", owner "all" and a blank search they are
\* exactly the failed tests.
C13_Filtered ==
    LET shown == filteredTests(tests, filterStatus, ownerFilter, searchTerm)
        hits == {i \in 1..Len(tests) : C13_Matches(tests[i])}
        nth(k) == CHOOSE i \in hits : Cardinality({j \in hits : j <= i}) = k
    IN  /\ Len(shown) = Cardinality(hits)
        /\ \A k \in 1..Len(shown) : shown[k] = tests[nth(k)]
        /\ (/\ filterStatus = "failed"
            /\ ownerFilter = All
            /\ \A k \in 1..Len(searchTerm) : IsSpace(searchTerm[k]))
           => hits = {i \in 1..Len(tests) : tests[i].status = "failed"}

\* After a run has failed, an owner written in another case and a search
\* in another case show some of the failed tests and not others.
C13_Witness ==
    LET shown == filteredTests(tests, filterStatus, ownerFilter, searchTerm)
    IN  /\ filterStatus = "failed"
        /\ ownerFilter = Str("Q")
        /\ searchTerm = <<"l", "O", "G">>
        /\ runs # <<>>
        /\ Len(shown) = 2
        /\ \E i \in 1..Len(tests) :
              tests[i].status = "failed" /\ tests[i].owner = Str("r")

----------------------------------------------------------------------------
(* C14 *)

\* C14: a run, started by a click or by a start timer of a bulk run, will
\* complete with success bias 0.72 if the status of its test just before
\* the start was passed, and with 0.55 otherwise.
C14_BiasFromPriorStatus ==
    (event.op = "run" /\ Len(pending) = Len(prev.pending) + 1) =>
        SuccessBias(pending[Len(pending)].target)
            = IF Rec(prev.tests, event.id).status = "passed" THEN 72 ELSE 55

----------------------------------------------------------------------------
(* C15 *)

\* The completion timer that fired in the event processed last.
C15_Fired ==
    CHOOSE p \in {prev.pending[i] : i \in 1..Len(prev.pending)} :
        \A i \in 1..Len(pending) : pending[i].at # p.at

\* C15: an entry nearer the front of the log was generated by an event
\* processed later than any entry behind it, and when a run completes its
\* "Queued" entry lies behind its outcome entry.
C15_LogOrder ==
    /\ \A i \in 1..Len(logs) : \A j \in (i + 1)..Len(logs) :
            /\ logs[i].timestamp > logs[j].timestamp
            /\ logs[i].id[2] > logs[j].id[2]
    /\ (event.op = "complete" /\ Len(prev.logs) < MAX_LOG_ITEMS) =>
            /\ logs[1].level \in {"success", "error"}
            /\ logs[1].timestamp = now - 1
            /\ \E k \in 2..Len(logs) :
                  /\ logs[k].timestamp = C15_Fired.at
                  /\ logs[k].level = "info"
                  /\ logs[k].message = <<"Queued", C15_Fired.target.name>>

\* A run completed after another event had written to the log since the
\* run was queued.
C15_Witness ==
    /\ event.op = "complete"
    /\ Len(logs) >= 3
    /\ logs[2].timestamp > C15_Fired.at
    /\ logs[3].timestamp = C15_Fired.at

----------------------------------------------------------------------------
(* C16 *)

\* The runs accepted so far: one "Queued" entry each (the log is not full).
C16_Queued == Len(SelectSeq(logs, LAMBDA entry : entry.message[1] = "Queued"))

----------------------------------------------------------------------------
(* C17 *)

\* C17: the duration of every run, in flight or completed, is between
\* 300 ms and 3000 ms, and the averageDurationMs of a test that started with
\* runCount 0 is between 300 and 3000 after each of its completed runs.
C17_DurationInRange ==
    /\ \A i \in 1..Len(pending) :
            /\ pending[i].runDuration >= 2 * 300
            /\ pending[i].runDuration <= 2 * 3000
    /\ \A i \in 1..Len(runs) :
            /\ runs[i].runDuration >= 2 * 300
            /\ runs[i].runDuration <= 2 * 3000
    /\ \A i \in 1..Len(tests) :
            (ZeroStart(tests[i].id) /\ tests[i].runCount >= 1) =>
                /\ tests[i].averageDurationMs >= 300
                /\ tests[i].averageDurationMs <= 3000

\* The second of two runs of a test, one after the other, was of a test
\* of 300 ms with the lowest jitter: its duration is 300 ms, not 100 ms.
C17_Witness ==
    /\ event.op = "complete"
    /\ ZeroStart(event.id)
    /\ Len(runs) = 2
    /\ runs[1].id = event.id
    /\ event.info.target.averageDurationMs = 300
    /\ event.info.runDuration = 2 * 300
    /\ Rec(tests, event.id).runCount = 2

----------------------------------------------------------------------------
(* C18 *)

\* C18: no test has more than one run in flight, that is more than one
\* completion timer set and not yet fired.
C18_OneRunInFlight ==
    \A id \in TestIds : Len(InFlight(pending, id)) <= 1

----------------------------------------------------------------------------
(* C19 *)

----------------------------------------------------------------------------
(* C20 *)

\* C20: a start, a completion or a reset of test X leaves the order of the
\* registry and the record of every other test as they were; a reset
\* changes nothing of X but its status, and so does a start (runCount,
\* averageDurationMs and lastRun change when the completion fires).
C20_OnlyOwnRecord ==
    event.op \in {"run", "complete", "reset"} =>
        /\ Len(tests) = Len(prev.tests)
        /\ \A i \in 1..Len(tests) :
              /\ tests[i].id = prev.tests[i].id
              /\ tests[i].id # event.id => tests[i] = prev.tests[i]
              /\ (tests[i].id = event.id /\ event.op = "reset") =>
                    tests[i] = [prev.tests[i] EXCEPT !.status = "idle"]
              /\ (tests[i].id = event.id /\ event.op = "run") =>
                    \/ tests[i] = prev.tests[i]
                    \/ /\ Len(pending) = Len(prev.pending) + 1
                       /\ tests[i] = [prev.tests[i] EXCEPT !.status = "running"]

\* A test with completed runs was reset while it and another test ran.
C20_Witness ==
    /\ event.op = "reset"
    /\ Len(tests) = 2
    /\ Rec(prev.tests, event.id).status = "running"
    /\ Rec(tests, event.id).runCount > 0
    /\ Rec(tests, event.id).lastRun # <<>>
    /\ Len(pending) = 1

====
